---------------------------- MODULE Spec2Model ----------------------------
(***************************************************************************)
(* State-machine model of the ChatGPT automation extension:                *)
(*   - the Completion Detector (waitForResponse / checkCompletion in       *)
(*     background.js), stepped tick by tick under SpecDet, and with a fair *)
(*     1-second poll under FairSpecDet;                                    *)
(*   - the API Facade (class ChatGPTAPI in chatgpt-api.js) together with   *)
(*     the content-script orchestrator (handlePrompt) under Spec, with its *)
(*     initialize() and isAvailable() calls recorded under SpecFacade, and *)
(*     in sequential use under SpecSeq;                                    *)
(*   - the injection Broker (the INJECT_PROSEMIRROR_SCRIPT listener) and   *)
(*     the injected routine (injectProseMirrorCode) under SpecInj;         *)
(*   - the steps of handlePrompt and setProseMirrorContent for each prompt *)
(*     message under SpecOrch.                                             *)
(***************************************************************************)
EXTENDS Integers, Sequences, FiniteSets, TLC

VARIABLES
    det,                \* the closure state of one waitForResponse() call
    sent,               \* messages that call passed to chrome.runtime.sendMessage
    hist,               \* history variables about the ticks seen so far
    isInitialized,      \* ChatGPTAPI.isInitialized
    busListeners,       \* listeners added to chrome.runtime.onMessage by initialize()
    responseListeners,  \* ChatGPTAPI.responseListeners (handlers named by request)
    req,                \* per sendPrompt call: the promise executor's closure
    page,               \* per sendPrompt call: progress of handlePrompt in the page
    bus,                \* CAPTURED_RESPONSE messages in flight to the Facade
    tabs,               \* the open tabs
    initCalls,          \* history: how many times initialize() was called
    available,          \* what the latest isAvailable() call returned
    editor,             \* the prompt input of the page as the injection code sees it
    marker,             \* window.__prosemirrorResult of the page, and who wrote it
    inj,                \* per INJECT_PROSEMIRROR_SCRIPT request: the Broker's progress
    orch                \* per PROMPT_CHATGPT message: progress of handlePrompt

detVars == <<det, sent, hist>>
apiVars == <<isInitialized, busListeners, responseListeners, req, page, bus, tabs>>
callVars == <<initCalls, available>>
injVars == <<editor, marker, inj>>
orchVars == <<orch>>
vars == <<det, sent, hist, isInitialized, busListeners, responseListeners,
          req, page, bus, tabs, initCalls, available, editor, marker, inj, orch>>

(***************************************************************************)
(* Program constants                                                       *)
(***************************************************************************)
maxChecks == 300

requiredStableChecks == 3

SentinelText == "Response timeout - please check manually"

(***************************************************************************)
(* Bounds of the model                                                     *)
(***************************************************************************)
MaxReq == 2

MaxTabs == 2

MaxPromptLen == 2

MaxOverrun == 1

MaxInitCalls == 2

MaxFacadeCalls == 1

MaxAttempts == 2

MaxPrompts == 2

(***************************************************************************)
(* The DOM as one tick of checkCompletion reads it.                        *)
(*   stopButton : a stop control matches the selectors                     *)
(*   isStreaming: an element with a streaming class exists                 *)
(*   sendButton : "absent", "enabled" or "disabled"                        *)
(*   responses  : innerText of the matched response blocks, in order       *)
(***************************************************************************)
BlockTexts == {"", "Hello world!", "Hello, world!"}

\* the DOM states read by the detector runs that Spec takes whole: the last
\* response block is missing, empty or holds one text
RunDoms ==
    [stopButton : BOOLEAN,
     isStreaming : BOOLEAN,
     sendButton : {"absent", "enabled", "disabled"},
     responses : {<<>>, <<"">>, <<"Hello world!">>}]

DomStates ==
    [stopButton : BOOLEAN,
     isStreaming : BOOLEAN,
     sendButton : {"absent", "enabled", "disabled"},
     responses : {<<>>} \cup {<<t>> : t \in BlockTexts}]

CapturedMsg(text) == [action |-> "CAPTURED_RESPONSE", text |-> text]

\* let checkCount = 0, streamingDetected = false, ... and both handles set up
NewDetector ==
    [started |-> TRUE,
     checkCount |-> 0,
     streamingDetected |-> FALSE,
     lastResponseLength |-> 0,
     stableCount |-> 0,
     observer |-> TRUE,
     intervalId |-> TRUE,
     isComplete |-> FALSE]

NoDetector ==
    [started |-> FALSE,
     checkCount |-> 0,
     streamingDetected |-> FALSE,
     lastResponseLength |-> 0,
     stableCount |-> 0,
     observer |-> FALSE,
     intervalId |-> FALSE,
     isComplete |-> FALSE]

\* cleanup() leaving the observer connected
cleanup_KeepObserver(d) == [d EXCEPT !.intervalId = FALSE]

\* cleanup(): disconnect the observer and clear the interval
cleanup(d) == [d EXCEPT !.observer = FALSE, !.intervalId = FALSE]

\* currentResponseLength of the last response block (0 when there is none)
currentResponseLength(dom) ==
    IF Len(dom.responses) > 0
    THEN Len(dom.responses[Len(dom.responses)])
    ELSE 0

\* completionConditionsMet without the test of streamingDetected
completionConditionsMet_NoStreaming(sd, dom) ==
    /\ ~dom.stopButton
    /\ ~dom.isStreaming
    /\ Len(dom.responses) > 0
    /\ currentResponseLength(dom) > 0
    /\ (dom.sendButton = "absent" \/ dom.sendButton # "disabled")

\* completionConditionsMet without the test of the response length
completionConditionsMet_NoLength(sd, dom) ==
    /\ sd
    /\ ~dom.stopButton
    /\ ~dom.isStreaming
    /\ Len(dom.responses) > 0
    /\ (dom.sendButton = "absent" \/ dom.sendButton # "disabled")

\* const completionConditionsMet = streamingDetected && !hasStopButton && ...
\* sd is streamingDetected as already updated by this tick
completionConditionsMet(sd, dom) ==
    /\ sd
    /\ ~dom.stopButton
    /\ ~dom.isStreaming
    /\ Len(dom.responses) > 0
    /\ currentResponseLength(dom) > 0
    /\ (dom.sendButton = "absent" \/ dom.sendButton # "disabled")

\* the stability test passing one check early
StableReached_Early(n) == n >= requiredStableChecks - 1

\* the safety timeout taken at the tick that reaches maxChecks
SafetyTimeout_AtMax(n) == n >= maxChecks

\* no safety timeout at all
SafetyTimeout_Never(n) == FALSE

\* stableCount >= requiredStableChecks
StableReached(n) == n >= requiredStableChecks

\* checkCount > maxChecks
SafetyTimeout(n) == n > maxChecks

\* streamingDetected following the stop control of the tick at hand
streamingDetectedAfter_Latest(sd, dom) == dom.stopButton

\* if (stopButton && !streamingDetected) { streamingDetected = true; }
streamingDetectedAfter(sd, dom) == IF dom.stopButton /\ ~sd THEN TRUE ELSE sd

\* One call of checkCompletion on detector state d reading DOM dom:
\* the new state and the messages it sends.
checkCompletion(d, dom) ==
    IF d.isComplete
    THEN [det |-> d, out |-> <<>>]
    ELSE
      LET cc == d.checkCount + 1 IN
      IF SafetyTimeout(cc)
      THEN [det |-> cleanup([d EXCEPT !.checkCount = cc]),
            out |-> <<CapturedMsg(SentinelText)>>]
      ELSE
        LET sd  == streamingDetectedAfter(d.streamingDetected, dom)
            cur == currentResponseLength(dom)
            d1  == [d EXCEPT !.checkCount = cc, !.streamingDetected = sd]
        IN
        IF completionConditionsMet(sd, dom)
        THEN
          IF cur = d.lastResponseLength
          THEN
            IF StableReached(d.stableCount + 1)
            THEN [det |-> cleanup([d1 EXCEPT !.stableCount = d.stableCount + 1,
                                             !.isComplete = TRUE]),
                  out |-> <<CapturedMsg(dom.responses[Len(dom.responses)])>>]
            ELSE [det |-> [d1 EXCEPT !.stableCount = d.stableCount + 1],
                  out |-> <<>>]
          ELSE [det |-> [d1 EXCEPT !.stableCount = 0,
                                   !.lastResponseLength = cur],
                out |-> <<>>]
        ELSE [det |-> [d1 EXCEPT !.stableCount = 0,
                                 !.lastResponseLength =
                                     IF cur > 0 THEN cur ELSE d.lastResponseLength],
              out |-> <<>>]


(***************************************************************************)
(* History variables of the detector run.  They record what the ticks      *)
(* observed, independently of the detector's own counters:                 *)
(*   everCandidate: some tick met the completion conditions                *)
(*   everNonZero  : some tick read a non-zero response length              *)
(*   prevLen      : the length the latest tick read                        *)
(*   sameRun      : how many latest ticks in a row read the same non-zero  *)
(*                  length (counted up to RunCap)                          *)
(*   candRun      : how many latest ticks in a row met the completion      *)
(*                  conditions (counted up to RunCap)                      *)
(*   scen         : how many ticks were taken, all following Scenario;     *)
(*                  -1 once a tick departed from it                        *)
(*   everStop     : some tick saw a stop control                           *)
(*   polls        : how many times the 1-second interval fired (counted up *)
(*                  to requiredStableChecks)                               *)
(***************************************************************************)
RunCap == requiredStableChecks + 1

Min(a, b) == IF a < b THEN a ELSE b

ScenarioLen == Len("Hello world!")

\* response lengths [0,0,12,12,12] of the stability example, and one tick more
Scenario == <<0, 0, ScenarioLen, ScenarioLen, ScenarioLen, ScenarioLen>>

\* tick i of the example: a stop control on ticks 1 and 2 only, the listed
\* length, no streaming indicator and no disabled submit control
ScenarioMatches(i, dom) ==
    /\ i \in DOMAIN Scenario
    /\ dom.stopButton = (i <= 2)
    /\ currentResponseLength(dom) = Scenario[i]
    /\ ~dom.isStreaming
    /\ dom.sendButton # "disabled"

NoHist ==
    [everCandidate |-> FALSE, everNonZero |-> FALSE, prevLen |-> 0,
     sameRun |-> 0, candRun |-> 0, scen |-> 0, everStop |-> FALSE, polls |-> 0]

\* hist after a tick that found detector state d and read dom; a tick that
\* checkCompletion ignores (isComplete) or ends by the safety timeout reads nothing
HistAfter(h, d, dom) ==
    IF d.isComplete \/ SafetyTimeout(d.checkCount + 1)
    THEN h
    ELSE
      LET cur == currentResponseLength(dom)
          met == completionConditionsMet(d.streamingDetected \/ dom.stopButton, dom)
      IN [everCandidate |-> h.everCandidate \/ met,
          everNonZero |-> h.everNonZero \/ cur > 0,
          prevLen |-> cur,
          sameRun |-> IF cur = 0 THEN 0
                      ELSE IF cur = h.prevLen THEN Min(h.sameRun + 1, RunCap)
                      ELSE 1,
          candRun |-> IF met THEN Min(h.candRun + 1, RunCap) ELSE 0,
          scen |-> IF h.scen >= 0 /\ ScenarioMatches(h.scen + 1, dom)
                   THEN h.scen + 1 ELSE -1,
          everStop |-> h.everStop \/ dom.stopButton,
          polls |-> h.polls]

(***************************************************************************)
(* The detector, tick by tick (SpecDet)                                    *)
(***************************************************************************)
\* ticks stop when the handles are released; the cap bounds the counter
\* should they not be
TickCap == maxChecks + MaxOverrun

\* waitForResponse(): set up the state and both handles, then check immediately
waitForResponse(dom) ==
    /\ ~det.started
    /\ LET r == checkCompletion(NewDetector, dom) IN
         /\ det' = r.det
         /\ sent' = sent \o r.out
    /\ hist' = HistAfter(hist, NewDetector, dom)
    /\ UNCHANGED <<apiVars, callVars, injVars, orchVars>>

\* the MutationObserver callback: checkCompletion()
MutationTick(dom) ==
    /\ det.started
    /\ det.observer
    /\ det.checkCount <= TickCap
    /\ LET r == checkCompletion(det, dom) IN
         /\ det' = r.det
         /\ sent' = sent \o r.out
    /\ hist' = HistAfter(hist, det, dom)
    /\ UNCHANGED <<apiVars, callVars, injVars, orchVars>>

\* the setInterval callback: checkCompletion(); if (isComplete) cleanup()
PollTick(dom) ==
    /\ det.started
    /\ det.intervalId
    /\ det.checkCount <= TickCap
    /\ LET r == checkCompletion(det, dom) IN
         /\ det' = IF r.det.isComplete THEN cleanup(r.det) ELSE r.det
         /\ sent' = sent \o r.out
    /\ hist' = [HistAfter(hist, det, dom) EXCEPT
                   !.polls = Min(@ + 1, requiredStableChecks)]
    /\ UNCHANGED <<apiVars, callVars, injVars, orchVars>>

TabIds == 1..MaxTabs

Reqs == 1..MaxReq

IdleReq ==
    [pc |-> "idle", resolved |-> FALSE, timer |-> "none",
     settles |-> <<>>, progress |-> <<>>, tab |-> 0]

(***************************************************************************)
(* The page state of the injection Broker and the injected routine         *)
(*   editor : the prompt input of the page                                 *)
(*            textarea: #prompt-textarea exists                            *)
(*            view    : findProseMirrorView finds an editor view           *)
(*            text    : the input's visible text is not blank              *)
(*   marker : window.__prosemirrorResult (val) and, as history, the        *)
(*            attempt whose routine wrote it (by)                          *)
(*   inj[a] : the Broker's handling of the a-th INJECT_PROSEMIRROR_SCRIPT  *)
(*            request and the page timers of its injected routine          *)
(***************************************************************************)
Attempts == 1..MaxAttempts

\* JavaScript null / undefined
Null == [null |-> TRUE]

Truthy(v) == v # Null

\* obj.field is truthy, for a field that holds a boolean when present
Has(v, field) == field \in DOMAIN v /\ v[field] = TRUE

\* the values injectProseMirrorCode writes to window.__prosemirrorResult
DirectApiResult == [success |-> TRUE, method |-> "direct_api"]

DomResult == [success |-> TRUE, method |-> "dom_manipulation"]

TextareaNotFound == [error |-> "Textarea not found"]

DomFailed == [error |-> "DOM manipulation failed"]

DomError == [error |-> "DOM manipulation error"]

CaughtError == [error |-> "e.message"]

\* the responses the Broker builds itself
NoResultFound == [success |-> FALSE, error |-> "No result found"]

ExecutionError == [success |-> FALSE, error |-> "error.message"]

NoMarker == [val |-> Null, by |-> 0]

\* chrome.scripting.executeScript resolves with one InjectionResult per frame
\* the function ran in: an object holding the function's return value in its
\* field result; no frame gives an empty array
executeScript(returned, frames) ==
    IF frames = 0 THEN <<>> ELSE <<[frameId |-> 0, result |-> returned]>>

\* results && results[0] ? results[0] : null
firstResult(results) == IF Len(results) > 0 THEN results[1] ELSE Null

\* func of the read: return window.__prosemirrorResult || null
readMarker(m) == m.val

\* func of the probe: { hasContent: content.trim().length > 0 }, or
\* { hasContent: false } without a textarea
probeTextarea(e) == [hasContent |-> e.textarea /\ e.text]

EditorStates ==
    {e \in [textarea : BOOLEAN, view : BOOLEAN, text : BOOLEAN] :
        ~e.textarea => (~e.view /\ ~e.text)}

\* history fields of an attempt: tier (the tier its routine ran), domOk (a
\* check of setContentViaDOM found text), read and probe (how the Broker's
\* two executions ended), readBy (who had written the marker the Broker read;
\* 0 for no marker, -1 before the read)
IdleAttempt ==
    [pc |-> "idle", t300 |-> FALSE, t200 |-> FALSE, result |-> Null,
     error |-> FALSE, tier |-> "none", domOk |-> FALSE, readBy |-> -1,
     read |-> "none", probe |-> "none", responses |-> <<>>]

InitInj ==
    /\ editor = [textarea |-> FALSE, view |-> FALSE, text |-> FALSE]
    /\ marker = NoMarker
    /\ inj = [a \in Attempts |-> IdleAttempt]

(***************************************************************************)
(* The content-script orchestrator (handlePrompt, setProseMirrorContent)   *)
(*   orch[k] : the k-th PROMPT_CHATGPT message received in the page        *)
(*             pc       : where its handlePrompt stands                    *)
(*             result   : what setProseMirrorContent got as the Broker's   *)
(*                        response                                         *)
(*             steps    : history, what it has done so far, in order       *)
(*             verified : history, what the input held when the check      *)
(*                        after the injection read it                      *)
(*             detectors: history, how many times it called                *)
(*                        waitForResponse()                                *)
(***************************************************************************)
Prompts == 1..MaxPrompts

IdlePrompt ==
    [pc |-> "idle", result |-> Null, steps |-> <<>>, verified |-> "none",
     detectors |-> 0]

InitOrch == orch = [k \in Prompts |-> IdlePrompt]

InitApi ==
    /\ isInitialized = FALSE
    /\ busListeners = 0
    /\ responseListeners = {}
    /\ req = [r \in Reqs |-> IdleReq]
    /\ page = [r \in Reqs |-> "none"]
    /\ bus = {}
    /\ tabs \in SUBSET TabIds
    /\ initCalls = 0
    /\ available = "none"

InitDet ==
    /\ det = NoDetector
    /\ sent = <<>>
    /\ hist = NoHist

DetInit ==
    /\ InitDet
    /\ InitApi
    /\ InitInj
    /\ InitOrch
    /\ tabs = {}

DetNext ==
    \E dom \in DomStates :
        \/ waitForResponse(dom)
        \/ MutationTick(dom)
        \/ PollTick(dom)

SpecDet == DetInit /\ [][DetNext]_vars

\* setInterval keeps calling its callback every second until clearInterval
FairSpecDet == SpecDet /\ WF_vars(\E dom \in DomStates : PollTick(dom))


(***************************************************************************)
(* The API Facade and the content script (Spec)                            *)
(***************************************************************************)
\* Error messages of sendPrompt
NotInitialized == "API not initialized. Call initialize() first."

InvalidInput == "Prompt must be a non-empty string"

TargetNotFound == "ChatGPT tab not found. Please open ChatGPT in a browser tab."

CommunicationError == "Failed to send prompt"

Timeout == "Request timeout"

\* Values a caller may pass as prompt: strings over a blank and a letter, and
\* values that are no strings
Chars == {" ", "a"}

Strings == UNION {[1..k -> Chars] : k \in 0..MaxPromptLen}

PromptValues ==
    {[type |-> "string", str |-> s] : s \in Strings}
        \cup {[type |-> "undefined", str |-> <<>>],
              [type |-> "number", str |-> <<>>]}

RECURSIVE trimStart(_)
trimStart(s) ==
    IF Len(s) > 0 /\ Head(s) = " " THEN trimStart(Tail(s)) ELSE s

RECURSIVE trimEnd(_)
trimEnd(s) ==
    IF Len(s) > 0 /\ s[Len(s)] = " " THEN trimEnd(SubSeq(s, 1, Len(s) - 1)) ELSE s

\* String.prototype.trim
trim(s) == trimEnd(trimStart(s))

\* the validation passing a whitespace-only string
InvalidPrompt_NoTrim(p) ==
    \/ p.type = "undefined"
    \/ p.type = "string" /\ Len(p.str) = 0
    \/ p.type # "string"

\* !prompt || typeof prompt !== 'string' || prompt.trim().length === 0
InvalidPrompt(p) ==
    \/ p.type = "undefined"
    \/ p.type = "string" /\ Len(p.str) = 0
    \/ p.type # "string"
    \/ Len(trim(p.str)) = 0

\* The URL of tab t as its parts; <<>> when the tab shows no url
TabUrl(t) ==
    CASE t % 4 = 1 -> <<>>
      [] t % 4 = 2 -> <<"https://", "chatgpt.com", "/">>
      [] t % 4 = 3 -> <<"https://", "example.com", "/">>
      [] OTHER -> <<"https://", "chat.openai.com", "/chat">>

\* String.prototype.includes on the parts of a URL
includes(url, part) == \E i \in DOMAIN url : url[i] = part

\* tab.url && (tab.url.includes("chatgpt.com") || tab.url.includes("chat.openai.com"))
IsChatGPTTab(t) ==
    /\ Len(TabUrl(t)) > 0
    /\ (includes(TabUrl(t), "chatgpt.com") \/ includes(TabUrl(t), "chat.openai.com"))

\* _getChatGPTTab() answering with the tab an earlier lookup found
getChatGPTTab_Cached(open, queryOk) ==
    IF \E q \in DOMAIN req : req[q].tab # 0
    THEN req[CHOOSE q \in DOMAIN req : req[q].tab # 0].tab
    ELSE IF queryOk /\ \E t \in open : IsChatGPTTab(t)
    THEN CHOOSE t \in open : IsChatGPTTab(t) /\ \A u \in open : IsChatGPTTab(u) => t <= u
    ELSE 0

\* _getChatGPTTab(): the first matching tab among the open ones, 0 for null;
\* a query that throws gives null
getChatGPTTab(open, queryOk) ==
    IF queryOk /\ \E t \in open : IsChatGPTTab(t)
    THEN CHOOSE t \in open : IsChatGPTTab(t) /\ \A u \in open : IsChatGPTTab(u) => t <= u
    ELSE 0

Rejected(error) == [kind |-> "reject", val |-> error, src |-> 0]

Resolved(text, src) == [kind |-> "resolve", val |-> text, src |-> src]

\* a response handler that leaves its request pending
responseHandler_KeepPending(rq, text, src) == rq

\* responseHandler(responseText) of a request; src names the request whose
\* detector sent the text
responseHandler(rq, text, src) ==
    IF rq.resolved THEN rq
    ELSE [rq EXCEPT !.resolved = TRUE,
                    !.timer = IF rq.timer = "armed" THEN "cleared" ELSE rq.timer,
                    !.settles = Append(rq.settles, Resolved(text, src))]

\* a failure path that does not test the resolved flag
rejectOnce_NoGuard(rq, error) ==
    [rq EXCEPT !.resolved = TRUE,
               !.timer = IF rq.timer = "armed" THEN "cleared" ELSE rq.timer,
               !.settles = Append(rq.settles, Rejected(error))]

\* a failure path that leaves the timer running
rejectOnce_KeepTimer(rq, error) ==
    IF rq.resolved THEN rq
    ELSE [rq EXCEPT !.resolved = TRUE,
                    !.settles = Append(rq.settles, Rejected(error))]

\* a failure path: if (resolved) return; resolved = true; clearTimeout(...);
\* ...; reject(error)
rejectOnce(rq, error) ==
    IF rq.resolved THEN rq
    ELSE [rq EXCEPT !.resolved = TRUE,
                    !.timer = IF rq.timer = "armed" THEN "cleared" ELSE rq.timer,
                    !.settles = Append(rq.settles, Rejected(error))]

\* the tab-not-found branch: if (resolved) return; resolved = true;
\* clearTimeout(...); ...; throw, caught by the catch block, which is
\* rejectOnce on the flag just set
tabNotFound(rq) ==
    IF rq.resolved THEN rq
    ELSE rejectOnce([rq EXCEPT !.resolved = TRUE,
                               !.timer = IF rq.timer = "armed" THEN "cleared"
                                         ELSE rq.timer],
                    TargetNotFound)

\* the setTimeout callback marking the request resolved without rejecting it
timeoutCallback_NoReject(rq) ==
    IF rq.resolved THEN [rq EXCEPT !.timer = "fired"]
    ELSE [rq EXCEPT !.resolved = TRUE, !.timer = "fired"]

\* the setTimeout callback
timeoutCallback(rq) ==
    IF rq.resolved THEN [rq EXCEPT !.timer = "fired"]
    ELSE [rq EXCEPT !.resolved = TRUE,
                    !.timer = "fired",
                    !.settles = Append(rq.settles, Rejected(Timeout))]

\* initialize() adding its listener at every call
initialize_NoGuard ==
    /\ busListeners' = busListeners + 1
    /\ isInitialized' = TRUE
    /\ UNCHANGED <<responseListeners, req, page, bus, tabs>>
    /\ UNCHANGED <<detVars, injVars, orchVars>>

\* initialize(): if (this.isInitialized) return; if (!this.messageListener)
\* { ...addListener(this.messageListener) }; this.isInitialized = true
initialize ==
    /\ IF isInitialized
       THEN UNCHANGED <<isInitialized, busListeners>>
       ELSE /\ busListeners' = IF busListeners = 0 THEN 1 ELSE busListeners
            /\ isInitialized' = TRUE
    /\ UNCHANGED <<responseListeners, req, page, bus, tabs>>
    /\ UNCHANGED <<detVars, injVars, orchVars>>

\* a call of initialize()
Initialize ==
    /\ initialize
    /\ UNCHANGED callVars

\* a call of initialize(), counted
InitializeCall ==
    /\ initCalls < MaxInitCalls
    /\ initialize
    /\ initCalls' = initCalls + 1
    /\ UNCHANGED available

\* isAvailable() answering from the open tabs even when the scan failed
isAvailable_IgnoresError(open, queryOk) == \E t \in open : IsChatGPTTab(t)

\* isAvailable(): const tab = await this._getChatGPTTab(); return tab !== null
isAvailable(open, queryOk) == getChatGPTTab(open, queryOk) # 0

\* a call of isAvailable() and what it returned
IsAvailable(queryOk) ==
    /\ available' = IF isAvailable(tabs, queryOk) THEN "true" ELSE "false"
    /\ UNCHANGED initCalls
    /\ UNCHANGED <<apiVars, detVars, injVars, orchVars>>

\* sendPrompt(prompt) up to its first await; calls are numbered in call order
SendPrompt(r, p) ==
    /\ req[r].pc = "idle"
    /\ r > 1 => req[r - 1].pc # "idle"
    /\ IF ~isInitialized
       THEN /\ req' = [req EXCEPT ![r].pc = "thrown",
                                  ![r].settles = <<Rejected(NotInitialized)>>]
            /\ UNCHANGED responseListeners
       ELSE IF InvalidPrompt(p)
       THEN /\ req' = [req EXCEPT ![r].pc = "thrown",
                                  ![r].settles = <<Rejected(InvalidInput)>>]
            /\ UNCHANGED responseListeners
       ELSE /\ req' = [req EXCEPT ![r].pc = "query",
                                  ![r].timer = "armed"]
            /\ responseListeners' = responseListeners \cup {r}
    /\ UNCHANGED <<isInitialized, busListeners, page, bus, tabs>>
    /\ UNCHANGED <<detVars, callVars, injVars, orchVars>>

\* the continuation after await this._getChatGPTTab()
TabQueryReturn(r, queryOk) ==
    /\ req[r].pc = "query"
    /\ LET tab == getChatGPTTab(tabs, queryOk) IN
         IF tab = 0
         THEN /\ req' = [req EXCEPT ![r] = [tabNotFound(req[r]) EXCEPT !.pc = "returned"]]
              /\ responseListeners' =
                     IF req[r].resolved THEN responseListeners
                     ELSE responseListeners \ {r}
              /\ UNCHANGED page
         ELSE /\ req' = [req EXCEPT ![r].pc = "sending",
                                    ![r].tab = tab,
                                    ![r].progress = Append(req[r].progress, "Sending prompt...")]
              /\ page' = [page EXCEPT ![r] = "inflight"]
              /\ UNCHANGED responseListeners
    /\ UNCHANGED <<isInitialized, busListeners, bus, tabs>>
    /\ UNCHANGED <<detVars, callVars, injVars, orchVars>>

\* the sendMessage callback with chrome.runtime.lastError set: the message
\* reached no listener
SendFailed(r) ==
    /\ req[r].pc = "sending"
    /\ page[r] = "inflight"
    /\ req' = [req EXCEPT ![r] = [rejectOnce(req[r], CommunicationError) EXCEPT !.pc = "failed"]]
    /\ responseListeners' =
           IF req[r].resolved THEN responseListeners ELSE responseListeners \ {r}
    /\ page' = [page EXCEPT ![r] = "lost"]
    /\ UNCHANGED <<isInitialized, busListeners, bus, tabs>>
    /\ UNCHANGED <<detVars, callVars, injVars, orchVars>>

\* the content script's listener: handlePrompt(request.prompt) up to its
\* first await, then sendResponse({status: "started"})
ReceivePrompt(r, hasTextarea) ==
    /\ page[r] = "inflight"
    /\ req[r].tab \in tabs
    /\ page' = [page EXCEPT ![r] = IF hasTextarea THEN "injecting" ELSE "noTextarea"]
    /\ UNCHANGED <<isInitialized, busListeners, responseListeners, req, bus, tabs>>
    /\ UNCHANGED <<detVars, callVars, injVars, orchVars>>

\* the sendMessage callback without lastError
SendAcked(r) ==
    /\ req[r].pc = "sending"
    /\ page[r] \notin {"none", "inflight", "lost"}
    /\ req' = [req EXCEPT ![r].pc = "acked",
                          ![r].progress = Append(req[r].progress, "Waiting for response...")]
    /\ UNCHANGED <<isInitialized, busListeners, responseListeners, page, bus, tabs>>
    /\ UNCHANGED <<detVars, callVars, injVars, orchVars>>

\* handlePrompt after await setProseMirrorContent(...): success is whether the
\* textarea then holds text
InjectionReturn(r, success) ==
    /\ page[r] = "injecting"
    /\ page' = [page EXCEPT ![r] = IF success THEN "submitting" ELSE "injectFailed"]
    /\ UNCHANGED <<isInitialized, busListeners, responseListeners, req, bus, tabs>>
    /\ UNCHANGED <<detVars, callVars, injVars, orchVars>>

\* the 300 ms callback of handlePrompt: click or Enter, then waitForResponse()
Submit(r) ==
    /\ page[r] = "submitting"
    /\ page' = [page EXCEPT ![r] = "detecting"]
    /\ UNCHANGED <<isInitialized, busListeners, responseListeners, req, bus, tabs>>
    /\ UNCHANGED <<detVars, callVars, injVars, orchVars>>


\* One tick of a detector run: st is the detector state and the messages sent
\* so far; the tick reads prefix[n] for the n-th tick and tail after the
\* prefix; once cleanup() has released both handles no tick comes any more.
detectorTick(st, prefix, tail) ==
    IF ~(st.det.observer \/ st.det.intervalId)
    THEN st
    ELSE LET n == st.det.checkCount + 1
             dom == IF n <= Len(prefix) THEN prefix[n] ELSE tail
             r == checkCompletion(st.det, dom)
         IN [det |-> r.det, out |-> st.out \o r.out]

\* k ticks in a row (split in halves to keep the evaluation shallow)
RECURSIVE detectorTicks(_, _, _, _)
detectorTicks(st, prefix, tail, k) ==
    IF k = 0 THEN st
    ELSE IF k = 1 THEN detectorTick(st, prefix, tail)
    ELSE LET half == detectorTicks(st, prefix, tail, k \div 2) IN
         IF half.det.started
         THEN detectorTicks(half, prefix, tail, k - (k \div 2))
         ELSE half

\* A whole run of one detector, from waitForResponse() until its handles are
\* released, which the safety timeout does at tick maxChecks + 1 at the
\* latest: the messages it sent.
detectorRun(prefix, tail) ==
    detectorTicks([det |-> NewDetector, out |-> <<>>], prefix, tail, maxChecks + 1).out

\* what a detector can send, over the runs that read one DOM state first and
\* another from then on
DetectorOutcomes ==
    {detectorRun(<<first>>, rest) : first \in RunDoms, rest \in RunDoms}

\* waitForResponse() run to its end in the page of request r: its messages go
\* on the bus, tagged with the request whose prompt started the detector
DetectorRun(r, out) ==
    /\ page[r] = "detecting"
    /\ page' = [page EXCEPT ![r] = "finished"]
    /\ bus' = bus \cup {[action |-> out[i].action, text |-> out[i].text, src |-> r] :
                          i \in DOMAIN out}
    /\ UNCHANGED <<isInitialized, busListeners, responseListeners, req, tabs>>
    /\ UNCHANGED <<detVars, callVars, injVars, orchVars>>

\* _handleResponse(text) with handlers that stay in the set
handleResponse_KeepListeners(text, src) ==
    /\ req' = [r \in Reqs |->
                 IF r \in responseListeners
                 THEN responseHandler(req[r], text, src)
                 ELSE req[r]]
    /\ UNCHANGED responseListeners

\* _handleResponse(text): every handler in responseListeners is called
handleResponse(text, src) ==
    /\ req' = [r \in Reqs |->
                 IF r \in responseListeners
                 THEN responseHandler(req[r], text, src)
                 ELSE req[r]]
    /\ responseListeners' = {r \in responseListeners : req[r].resolved}

\* the Facade's bus listener receives a CAPTURED_RESPONSE message
DeliverCaptured(m) ==
    /\ m \in bus
    /\ bus' = bus \ {m}
    /\ IF busListeners > 0 /\ m.action = "CAPTURED_RESPONSE"
       THEN handleResponse(m.text, m.src)
       ELSE UNCHANGED <<req, responseListeners>>
    /\ UNCHANGED <<isInitialized, busListeners, page, tabs>>
    /\ UNCHANGED <<detVars, callVars, injVars, orchVars>>

\* the timer of request r fires
TimerFire(r) ==
    /\ req[r].timer = "armed"
    /\ req' = [req EXCEPT ![r] = timeoutCallback(req[r])]
    /\ responseListeners' =
           IF req[r].resolved THEN responseListeners ELSE responseListeners \ {r}
    /\ UNCHANGED <<isInitialized, busListeners, page, bus, tabs>>
    /\ UNCHANGED <<detVars, callVars, injVars, orchVars>>

\* the user opens a tab
OpenTab(t) ==
    /\ t \notin tabs
    /\ tabs' = tabs \cup {t}
    /\ UNCHANGED <<isInitialized, busListeners, responseListeners, req, page, bus>>
    /\ UNCHANGED <<detVars, callVars, injVars, orchVars>>

\* the user closes a tab: the content script running in it is gone, and a
\* message still on its way to it can no longer be received
CloseTab(t) ==
    /\ t \in tabs
    /\ tabs' = tabs \ {t}
    /\ page' = [r \in Reqs |->
                  IF req[r].tab = t /\ page[r] \in {"injecting", "submitting", "detecting"}
                  THEN "destroyed"
                  ELSE page[r]]
    /\ UNCHANGED <<isInitialized, busListeners, responseListeners, req, bus>>
    /\ UNCHANGED <<detVars, callVars, injVars, orchVars>>

(***************************************************************************)
(* The injection Broker and the injected routine (SpecInj)                 *)
(***************************************************************************)
\* sendResponse(value) of an attempt's request
sendResponse(at, value) == [at EXCEPT !.responses = Append(at.responses, value)]

\* setProseMirrorContent sends INJECT_PROSEMIRROR_SCRIPT; the Broker's listener
\* calls executeScript with injectProseMirrorCode
InjectRequest(a) ==
    /\ inj[a].pc = "idle"
    /\ a > 1 => inj[a - 1].pc # "idle"
    /\ inj' = [inj EXCEPT ![a].pc = "executing"]
    /\ UNCHANGED <<editor, marker>>
    /\ UNCHANGED <<detVars, apiVars, callVars, orchVars>>

\* injectProseMirrorCode(promptText) run in the page, up to its return:
\* what it does to the editor, the marker and the attempt's page timers.
\* throws: the tier that runs raises an exception.
injectProseMirrorCode(a, throws) ==
    IF ~editor.textarea
    THEN /\ marker' = [val |-> TextareaNotFound, by |-> a]
         /\ inj' = [inj EXCEPT ![a].pc = "settling"]
         /\ UNCHANGED editor
    ELSE IF editor.view
    THEN IF throws
         THEN /\ marker' = [val |-> CaughtError, by |-> a]
              /\ inj' = [inj EXCEPT ![a].pc = "settling", ![a].tier = "editor-api"]
              /\ UNCHANGED editor
         ELSE /\ marker' = [val |-> DirectApiResult, by |-> a]
              /\ editor' = [editor EXCEPT !.text = TRUE]
              /\ inj' = [inj EXCEPT ![a].pc = "settling", ![a].tier = "editor-api"]
    ELSE IF throws
         THEN /\ marker' = [val |-> DomError, by |-> a]
              /\ inj' = [inj EXCEPT ![a].pc = "settling", ![a].tier = "dom"]
              /\ UNCHANGED editor
         ELSE /\ editor' = [editor EXCEPT !.text = TRUE]
              /\ inj' = [inj EXCEPT ![a].pc = "settling", ![a].tier = "dom",
                                    ![a].t300 = TRUE]
              /\ UNCHANGED marker

\* the first executeScript settles: .then starts the 500 ms timer, .catch
\* answers { success: false, error: error.message }
RunInjection(a, execOk, throws) ==
    /\ inj[a].pc = "executing"
    /\ IF execOk
       THEN injectProseMirrorCode(a, throws)
       ELSE /\ inj' = [inj EXCEPT ![a] = [sendResponse(inj[a], ExecutionError)
                                            EXCEPT !.pc = "done"]]
            /\ UNCHANGED <<editor, marker>>
    /\ UNCHANGED <<detVars, apiVars, callVars, orchVars>>

\* the 300 ms timer of setContentViaDOM
PageTimer300(a) ==
    /\ inj[a].t300
    /\ IF editor.text
       THEN /\ marker' = [val |-> DomResult, by |-> a]
            /\ inj' = [inj EXCEPT ![a].t300 = FALSE, ![a].domOk = TRUE]
       ELSE /\ inj' = [inj EXCEPT ![a].t300 = FALSE, ![a].t200 = TRUE]
            /\ UNCHANGED marker
    /\ UNCHANGED editor
    /\ UNCHANGED <<detVars, apiVars, callVars, orchVars>>

\* the 200 ms timer started by the 300 ms one
PageTimer200(a) ==
    /\ inj[a].t200
    /\ IF editor.text
       THEN /\ marker' = [val |-> DomResult, by |-> a]
            /\ inj' = [inj EXCEPT ![a].t200 = FALSE, ![a].domOk = TRUE]
       ELSE /\ marker' = [val |-> DomFailed, by |-> a]
            /\ inj' = [inj EXCEPT ![a].t200 = FALSE]
    /\ UNCHANGED editor
    /\ UNCHANGED <<detVars, apiVars, callVars, orchVars>>

\* the Broker's 500 ms timer: executeScript of the read and its .then, or
\* its .catch when the execution fails.  outcome: "ok", "empty" (the array
\* holds no result) or "fail"
BrokerRead(a, outcome) ==
    /\ inj[a].pc = "settling"
    /\ IF outcome = "fail"
       THEN /\ inj' = [inj EXCEPT ![a].pc = "probing", ![a].error = TRUE,
                                  ![a].read = outcome]
            /\ UNCHANGED marker
       ELSE LET results == executeScript(readMarker(marker),
                                         IF outcome = "ok" THEN 1 ELSE 0)
                result == firstResult(results)
                seen == [inj[a] EXCEPT !.result = result,
                                       !.read = outcome,
                                       !.readBy = IF outcome = "ok" THEN marker.by ELSE 0]
            IN IF ~Truthy(result) \/ ~Has(result, "success")
               THEN /\ inj' = [inj EXCEPT ![a] = [seen EXCEPT !.pc = "probing"]]
                    /\ UNCHANGED marker
               ELSE \* Clean up: delete window.__prosemirrorResult
                    /\ marker' = NoMarker
                    /\ inj' = [inj EXCEPT ![a] = [sendResponse(seen, result)
                                                    EXCEPT !.pc = "done"]]
    /\ UNCHANGED editor
    /\ UNCHANGED <<detVars, apiVars, callVars, orchVars>>

\* the probe of the textarea settles, after a read (result) or after a failed
\* read (error)
BrokerProbe(a, probeOk) ==
    /\ inj[a].pc = "probing"
    /\ LET check == IF probeOk
                    THEN firstResult(executeScript(probeTextarea(editor), 1))
                    ELSE Null
           answer == IF Truthy(check) /\ Has(check, "hasContent")
                     THEN DomResult
                     ELSE IF inj[a].error THEN ExecutionError
                     ELSE IF Truthy(inj[a].result) THEN inj[a].result
                     ELSE NoResultFound
       IN inj' = [inj EXCEPT ![a] = [sendResponse(inj[a], answer)
                                       EXCEPT !.pc = "done",
                                              !.probe = IF probeOk THEN "ok" ELSE "fail"]]
    /\ UNCHANGED <<editor, marker>>
    /\ UNCHANGED <<detVars, apiVars, callVars, orchVars>>

\* the host page renders: the input appears or goes, an editor view becomes
\* reachable or not, the framework keeps or drops the text put in the input
HostRender(e) ==
    /\ e # editor
    /\ editor' = e
    /\ UNCHANGED <<marker, inj>>
    /\ UNCHANGED <<detVars, apiVars, callVars, orchVars>>

InjInit ==
    /\ InitDet
    /\ InitApi
    /\ InitInj
    /\ InitOrch
    /\ tabs = {}

InjNext ==
    \/ \E a \in Attempts : InjectRequest(a)
    \/ \E a \in Attempts, execOk \in BOOLEAN, throws \in BOOLEAN :
           RunInjection(a, execOk, throws)
    \/ \E a \in Attempts : PageTimer300(a)
    \/ \E a \in Attempts : PageTimer200(a)
    \/ \E a \in Attempts, outcome \in {"ok", "empty", "fail"} : BrokerRead(a, outcome)
    \/ \E a \in Attempts, probeOk \in BOOLEAN : BrokerProbe(a, probeOk)
    \/ \E e \in EditorStates : HostRender(e)

SpecInj == InjInit /\ [][InjNext]_vars

(***************************************************************************)
(* The content-script orchestrator (SpecOrch)                              *)
(***************************************************************************)
\* the check after the injection trusting the Broker's answer
contentVerified_TrustsResult(e, response) == Has(response, "success")

\* contentCheck.trim().length > 0 on the text of the input; the response of
\* the Broker is not looked at
contentVerified(e, response) == e.text

\* the content script's listener calls handlePrompt(request.prompt): no
\* textarea, return; else focus it and send INJECT_PROSEMIRROR_SCRIPT
HandlePrompt(k) ==
    /\ orch[k].pc = "idle"
    /\ k > 1 => orch[k - 1].pc # "idle"
    /\ orch' = [orch EXCEPT ![k] =
                   IF ~editor.textarea
                   THEN [@ EXCEPT !.pc = "noTextarea"]
                   ELSE [@ EXCEPT !.pc = "awaitResult",
                                  !.steps = Append(@, "inject-request")]]
    /\ UNCHANGED <<detVars, apiVars, callVars, injVars>>

\* the callback of the INJECT_PROSEMIRROR_SCRIPT message: the promise is
\* resolved with the response (or with a failure when lastError is set, or
\* when the response is empty), then the 300 ms wait starts
InjectionResult(k, response) ==
    /\ orch[k].pc = "awaitResult"
    /\ orch' = [orch EXCEPT ![k].pc = "verifying",
                            ![k].result = response,
                            ![k].steps = Append(@, "inject-result")]
    /\ UNCHANGED <<detVars, apiVars, callVars, injVars>>

\* after the 300 ms wait: read the text of the input; handlePrompt returns
\* when it is empty and starts its 300 ms timer otherwise
VerifyContent(k) ==
    /\ orch[k].pc = "verifying"
    /\ orch' = [orch EXCEPT ![k].pc = IF contentVerified(editor, orch[k].result)
                                      THEN "submitting" ELSE "failed",
                            ![k].steps = Append(@, "verify"),
                            ![k].verified = IF editor.text THEN "text" ELSE "empty"]
    /\ UNCHANGED <<detVars, apiVars, callVars, injVars>>

\* the 300 ms callback of handlePrompt: click the send button, or dispatch
\* Enter when there is none; then waitForResponse()
SubmitPrompt(k, hasSendButton) ==
    /\ orch[k].pc = "submitting"
    /\ orch' = [orch EXCEPT ![k].pc = "detecting",
                            ![k].steps = @ \o <<IF hasSendButton THEN "click" ELSE "enter",
                                                "detector-start">>,
                            ![k].detectors = @ + 1]
    /\ UNCHANGED <<detVars, apiVars, callVars, injVars>>

\* what the Broker may answer, and the failures setProseMirrorContent puts
\* in place of an answer
InjectionResponses ==
    {DomResult, NoResultFound, ExecutionError,
     firstResult(executeScript(DirectApiResult, 1)),
     [success |-> FALSE, error |-> "lastError.message"],
     [success |-> FALSE, error |-> "No response"]}

OrchInit ==
    /\ InitDet
    /\ InitApi
    /\ InitInj
    /\ InitOrch
    /\ tabs = {}

OrchNext ==
    \/ \E k \in Prompts : HandlePrompt(k)
    \/ \E k \in Prompts, response \in InjectionResponses : InjectionResult(k, response)
    \/ \E k \in Prompts : VerifyContent(k)
    \/ \E k \in Prompts, hasSendButton \in BOOLEAN : SubmitPrompt(k, hasSendButton)
    \/ \E e \in EditorStates : HostRender(e)

SpecOrch == OrchInit /\ [][OrchNext]_vars

Init ==
    /\ InitDet
    /\ InitApi
    /\ InitInj
    /\ InitOrch

\* what follows the calls of sendPrompt: the page, the bus, the timers, the user
AfterSendNext ==
    \/ \E r \in Reqs, queryOk \in BOOLEAN : TabQueryReturn(r, queryOk)
    \/ \E r \in Reqs : SendFailed(r)
    \/ \E r \in Reqs, hasTextarea \in BOOLEAN : ReceivePrompt(r, hasTextarea)
    \/ \E r \in Reqs : SendAcked(r)
    \/ \E r \in Reqs, success \in BOOLEAN : InjectionReturn(r, success)
    \/ \E r \in Reqs : Submit(r)
    \/ \E r \in Reqs, out \in DetectorOutcomes : DetectorRun(r, out)
    \/ \E m \in bus : DeliverCaptured(m)
    \/ \E r \in Reqs : TimerFire(r)
    \/ \E t \in TabIds : OpenTab(t)
    \/ \E t \in TabIds : CloseTab(t)

Next ==
    \/ Initialize
    \/ \E r \in Reqs, p \in PromptValues : SendPrompt(r, p)
    \/ AfterSendNext

Spec == Init /\ [][Next]_vars

\* the event loop runs a pending timer callback
FairSpec == Spec /\ \A r \in Reqs : WF_vars(TimerFire(r))

\* the Facade with its initialize() calls counted, with isAvailable() calls
\* and with at most MaxFacadeCalls calls of sendPrompt
FacadeNext ==
    \/ InitializeCall
    \/ \E queryOk \in BOOLEAN : IsAvailable(queryOk)
    \/ \E r \in Reqs, p \in PromptValues : r <= MaxFacadeCalls /\ SendPrompt(r, p)
    \/ AfterSendNext

SpecFacade == Init /\ [][FacadeNext]_vars

(***************************************************************************)
(* Claims about the Facade and the content script (checked under Spec)     *)
(***************************************************************************)
Settled(r) == Len(req[r].settles) > 0

\* request r was resolved with the text the detector of request s captured
ResolvedBy(r, s) ==
    \E i \in DOMAIN req[r].settles :
        req[r].settles[i].kind = "resolve" /\ req[r].settles[i].src = s

\* C1: when the response-captured message produced for request A resolves A,
\* it resolves no other request B that is pending together with A; every
\* request resolves only with the text captured for its own prompt.
C1_NoCrossDelivery ==
    \A a \in Reqs, b \in Reqs : (a # b /\ ResolvedBy(a, a)) => ~ResolvedBy(b, a)

\* C2: resolve and reject are called at most once per request, together,
\* whatever the order of the timer, the send acknowledgment, the send failure
\* and the response-captured messages; a settled request carries the flag.
C2_SettleOnce ==
    \A r \in Reqs :
        /\ Len(req[r].settles) <= 1
        /\ (Settled(r) /\ req[r].pc # "thrown") => req[r].resolved

\* a request rejected by its timer whose own captured response was delivered
\* afterwards
C2_Witness ==
    \E r \in Reqs :
        /\ req[r].settles = <<Rejected(Timeout)>>
        /\ page[r] = "finished"
        /\ \A m \in bus : m.src # r

\* C3: once the lookup of a valid sendPrompt has found no matching tab, the
\* promise is rejected with TargetNotFound (unless the timer or a captured
\* response settled it before), and no submit-prompt message was sent.
C3_TargetNotFoundRejects ==
    \A r \in Reqs :
        req[r].pc = "returned" =>
            /\ page[r] = "none"
            /\ \/ req[r].settles = <<Rejected(TargetNotFound)>>
               \/ req[r].timer = "fired"
               \/ \E s \in Reqs : ResolvedBy(r, s)

\* the content script of request r found the input, set its text and
\* verified it
InjectionSucceeded(r) == page[r] \in {"submitting", "detecting", "finished"}

C4_Outcome(r) ==
    (InjectionSucceeded(r) /\ Settled(r)) =>
        /\ Len(req[r].settles) = 1
        /\ \/ /\ req[r].settles[1].kind = "resolve"
              /\ req[r].settles[1].val # ""
           \/ req[r].settles[1] = Rejected(Timeout)

\* C4 (as amended): for every valid prompt whose injection succeeded,
\* sendPrompt eventually settles, exactly once: it resolves with non-empty
\* text, or it is rejected with Timeout when the timer fires first; never
\* both.
C4_SettlesOnce ==
    /\ [](\A r \in Reqs : C4_Outcome(r))
    /\ \A r \in Reqs : InjectionSucceeded(r) ~> Settled(r)

C4_Witness ==
    \E r \in Reqs :
        /\ page[r] = "finished"
        /\ Len(req[r].settles) = 1
        /\ req[r].settles[1].kind = "resolve"
        /\ req[r].settles[1].src = r
        /\ req[r].settles[1].val \in BlockTexts \ {""}

\* C4 as stated: a request whose injection succeeded settles only by
\* resolving with non-empty text.
C4_ResolvesNonEmpty ==
    \A r \in Reqs :
        (InjectionSucceeded(r) /\ Settled(r)) =>
            /\ req[r].settles[1].kind = "resolve"
            /\ req[r].settles[1].val # ""

\* C5: the sentinel text of a timed-out detector is never the value a
\* sendPrompt promise resolves with.
C5_SentinelNeverResolves ==
    \A r \in Reqs : \A i \in DOMAIN req[r].settles :
        req[r].settles[i].kind = "resolve" => req[r].settles[i].val # SentinelText

\* C6: when the check after injection found the input empty, the request
\* does not stay pending with nothing on its way: it is settled, or a
\* failure signal for it is on the bus.
C6_InjectionFailedSurfaces ==
    \A r \in Reqs :
        page[r] = "injectFailed" =>
            \/ Settled(r)
            \/ \E m \in bus : m.src = r /\ m.action # "CAPTURED_RESPONSE"

\* the prompt is no string, or a string of blanks only (the empty one too)
BlankOrNoString(p) ==
    p.type # "string" \/ \A i \in DOMAIN p.str : p.str[i] = " "

\* C10: a sendPrompt call before initialize is rejected with NotInitialized,
\* and one with an empty, whitespace-only or non-string prompt with
\* InvalidInput; such a call registers no listener, starts no timer, starts
\* no tab lookup and sends no message.
C10_ValidationFails ==
    [][\A r \in Reqs, p \in PromptValues :
         (SendPrompt(r, p) /\ (~isInitialized \/ BlankOrNoString(p))) =>
             /\ req'[r].settles =
                    <<Rejected(IF ~isInitialized THEN NotInitialized ELSE InvalidInput)>>
             /\ req'[r] = [IdleReq EXCEPT !.pc = "thrown", !.settles = req'[r].settles]
             /\ \A q \in Reqs \ {r} : req'[q] = req[q]
             /\ UNCHANGED <<isInitialized, busListeners, responseListeners, page,
                            bus, tabs>>]_vars

C10_Witness ==
    /\ req[1].settles = <<Rejected(NotInitialized)>>
    /\ req[2].settles = <<Rejected(InvalidInput)>>
    /\ responseListeners = {}

(***************************************************************************)
(* Claims about initialize(), the timer and the send (SpecFacade, FairSpec)*)
(***************************************************************************)
\* C11: initialize is idempotent: after any number N >= 1 of calls exactly
\* one bus listener is registered and a further call changes nothing of the
\* Facade; so the delivery of one response-captured message calls each
\* pending handler at most once (it settles a request at most once).
C11_InitializeIdempotent ==
    /\ [](initCalls >= 1 => (isInitialized /\ busListeners = 1))
    /\ [](initCalls = 0 => (~isInitialized /\ busListeners = 0))
    /\ [][(InitializeCall /\ initCalls >= 1) => UNCHANGED apiVars]_vars
    /\ [][\A m \in bus : DeliverCaptured(m) =>
            \A r \in Reqs : Len(req'[r].settles) <= Len(req[r].settles) + 1]_vars

\* initialize() was called more than once and a captured response then
\* resolved a request
C11_Witness ==
    /\ initCalls >= 2
    /\ busListeners = 1
    /\ \E r \in Reqs : ResolvedBy(r, r)

\* the sendMessage callback of request r ran without lastError
SentWithoutError(r) == req[r].pc = "acked"

C12_Outcome(r) ==
    (SentWithoutError(r) /\ Settled(r)) =>
        /\ Len(req[r].settles) = 1
        /\ \/ req[r].settles[1].kind = "resolve"
           \/ req[r].settles[1] = Rejected(Timeout)

\* C12: a request whose tab was found and whose submit-prompt message was
\* sent without error always eventually settles: a response-captured message
\* delivered while it is pending resolves it with the text of that message,
\* the timer firing while it is pending rejects it with Timeout, and it never
\* stays pending forever.
C12_EventuallySettles ==
    /\ [](\A r \in Reqs : C12_Outcome(r))
    /\ [][\A r \in Reqs, m \in bus :
            (DeliverCaptured(m) /\ SentWithoutError(r) /\ ~Settled(r)) =>
                req'[r].settles = <<Resolved(m.text, m.src)>>]_vars
    /\ [][\A r \in Reqs :
            (TimerFire(r) /\ SentWithoutError(r) /\ ~Settled(r)) =>
                req'[r].settles = <<Rejected(Timeout)>>]_vars
    /\ \A r \in Reqs : SentWithoutError(r) ~> Settled(r)

\* a request sent without error that no captured response reached (its page
\* found no textarea) and that the timer rejected
C12_Witness ==
    \E r \in Reqs :
        /\ SentWithoutError(r)
        /\ page[r] = "noTextarea"
        /\ req[r].settles = <<Rejected(Timeout)>>

\* C13: when the send callback reports an error for a pending request, the
\* request is rejected with CommunicationError, its timer is cancelled and
\* its listener removed; "Waiting for response..." is never reported for a
\* request whose send failed, and the rejection stays its only outcome.
C13_SendFailure ==
    /\ [][\A r \in Reqs :
            (SendFailed(r) /\ ~req[r].resolved) =>
                /\ req'[r].settles = <<Rejected(CommunicationError)>>
                /\ req'[r].timer = "cleared"
                /\ r \notin responseListeners']_vars
    /\ [](\A r \in Reqs :
            req[r].pc = "failed" =>
                /\ \A i \in DOMAIN req[r].progress :
                       req[r].progress[i] # "Waiting for response..."
                /\ Len(req[r].settles) = 1
                /\ req[r].timer # "armed"
                /\ r \notin responseListeners)

C13_Witness ==
    \E r \in Reqs :
        /\ req[r].pc = "failed"
        /\ req[r].settles = <<Rejected(CommunicationError)>>
        /\ req[r].timer = "cleared"
        /\ req[r].progress = <<"Sending prompt...">>

\* the URL of tab t contains an entry of the allow-list
UrlMatches(t) ==
    \E i \in DOMAIN TabUrl(t) : TabUrl(t)[i] \in {"chatgpt.com", "chat.openai.com"}

\* C17 (as amended): isAvailable returns true exactly when the scan of the
\* open tabs succeeds and some tab open at that moment has a URL matching the
\* allow-list, false otherwise (also when the scan itself fails); it gives
\* this answer whether or not initialize was called or requests are in
\* flight, and it changes no Facade state.
C17_IsAvailableLaw ==
    [][\A queryOk \in BOOLEAN :
         IsAvailable(queryOk) =>
             /\ available' = IF queryOk /\ \E t \in tabs : UrlMatches(t)
                             THEN "true" ELSE "false"
             /\ UNCHANGED apiVars]_vars

\* isAvailable answered true while a request was in flight
C17_Witness ==
    /\ available = "true"
    /\ \E r \in Reqs : req[r].pc \in {"sending", "acked"} /\ ~Settled(r)

\* C17 as stated: the answer is true exactly when some open tab matches.
C17_TrueIffTabMatches ==
    [][\A queryOk \in BOOLEAN :
         IsAvailable(queryOk) =>
             available' = IF \E t \in tabs : UrlMatches(t) THEN "true" ELSE "false"]_vars

(***************************************************************************)
(* Claims about the Broker and the injected routine (checked under SpecInj)*)
(***************************************************************************)
Answered(a) == inj[a].pc = "done"

\* attempt a ran Tier 2 because no editor view was found, one of its checks
\* found text in the input and wrote the marker, and the Broker's read and
\* probe both ran without error, the read after that write
Tier2Succeeded(a) ==
    /\ inj[a].tier = "dom"
    /\ inj[a].domOk
    /\ inj[a].read = "ok"
    /\ inj[a].readBy = a
    /\ inj[a].probe \in {"none", "ok"}

\* C14: when Tier 1 finds no editor view and Tier 2 leaves non-empty text in
\* the input, the Broker answers the injection request with success = true
\* and method = dom_manipulation.
C14_FallbackLaw ==
    \A a \in Attempts :
        (Answered(a) /\ Tier2Succeeded(a)) => inj[a].responses = <<DomResult>>

\* C15: the Broker answers every injection request exactly once, and what it
\* answers carries a success flag.
C15_OneStructuredResponse ==
    \A a \in Attempts :
        /\ Len(inj[a].responses) <= 1
        /\ Answered(a) =>
             /\ Len(inj[a].responses) = 1
             /\ "success" \in DOMAIN inj[a].responses[1]

\* C16: the marker the Broker reads while serving attempt a was written by
\* the routine of attempt a (or there is none).
C16_NoMarkerLeak ==
    \A a \in Attempts : inj[a].readBy \in {-1, 0, a}

(***************************************************************************)
(* Claims about the detector (checked under SpecDet)                       *)
(***************************************************************************)
SentinelSent == \E i \in DOMAIN sent : sent[i].text = SentinelText

\* C7 (as amended): completion is never declared before the third tick in a
\* row that meets the completion conditions with the same non-zero length,
\* and a tick that meets them with a length other than the recorded one only
\* records it; so for lengths [0,0,12,12,12] with a stop control on ticks 1
\* and 2 the detector is not complete at tick 5 (stableCount is 2), and it
\* completes at tick 6 when that tick reads 12 again.
C7_StabilityLaw ==
    /\ det.isComplete =>
         /\ hist.candRun >= requiredStableChecks
         /\ hist.sameRun >= requiredStableChecks
    /\ det.stableCount <= hist.candRun
    /\ hist.scen = Len(Scenario) - 1 =>
         /\ ~det.isComplete
         /\ det.stableCount = requiredStableChecks - 1
         /\ sent = <<>>
    /\ hist.scen = Len(Scenario) =>
         /\ det.isComplete
         /\ det.checkCount = Len(Scenario)
         /\ sent = <<CapturedMsg("Hello world!")>>

C7_Witness == hist.scen = Len(Scenario) /\ det.isComplete

\* C7 as stated: after the five ticks of the example the detector is complete.
C7_StableAtTick5 == hist.scen = Len(Scenario) - 1 => det.isComplete

\* C8 (as amended): the sentinel text is sent at exactly tick maxChecks + 1
\* (the 301st), the first tick whose count exceeds maxChecks; when the
\* completion conditions were never met, ticks 1..maxChecks send nothing and
\* keep both handles, and tick maxChecks + 1 sends the sentinel and releases
\* them.
C8_TimeoutLaw ==
    /\ SentinelSent <=> det.checkCount = maxChecks + 1
    /\ det.checkCount <= maxChecks + 1
    /\ (~hist.everCandidate /\ det.started /\ det.checkCount <= maxChecks) =>
         /\ sent = <<>>
         /\ det.observer /\ det.intervalId
    /\ (~hist.everCandidate /\ det.checkCount = maxChecks + 1) =>
         /\ sent = <<CapturedMsg(SentinelText)>>
         /\ ~det.observer /\ ~det.intervalId

C8_Witness == ~hist.everCandidate /\ SentinelSent

\* C8 as stated: with the completion conditions never met, the sentinel has
\* been sent exactly from the 300th tick on.
C8_TimeoutAtTick300 ==
    ~hist.everCandidate => (SentinelSent <=> det.checkCount >= maxChecks)

\* C9: while every tick has read response length 0 (or no response block),
\* the detector is not complete and has sent no captured response text.
C9_NoFalsePositive ==
    ~hist.everNonZero =>
        /\ ~det.isComplete
        /\ \A i \in DOMAIN sent : sent[i].text = SentinelText

\* length 0 throughout, with streaming seen and then quiet ticks up to the end
C9_Witness ==
    /\ ~hist.everNonZero
    /\ det.streamingDetected
    /\ hist.prevLen = 0
    /\ SentinelSent

\* the detector has reached Stable or TimedOut
Terminal == det.isComplete \/ SentinelSent

\* C18: the detector becomes complete only at a tick that reads all the
\* candidate conditions: a stop control was seen at some tick, and this tick
\* reads no stop control, no streaming indicator, a last response block with
\* text, and a submit control that is absent or enabled; a detector that
\* never saw a stop control is never complete.
C18_StableOnlyWhenCandidate ==
    /\ [](det.isComplete => hist.everStop)
    /\ [][(~det.isComplete /\ det'.isComplete) =>
            \A dom \in DomStates :
                (waitForResponse(dom) \/ MutationTick(dom) \/ PollTick(dom)) =>
                    /\ hist.everStop
                    /\ det'.streamingDetected
                    /\ ~dom.stopButton
                    /\ ~dom.isStreaming
                    /\ Len(dom.responses) > 0
                    /\ Len(dom.responses[Len(dom.responses)]) > 0
                    /\ dom.sendButton \in {"absent", "enabled"}]_vars

C18_Witness ==
    /\ det.isComplete
    /\ hist.everStop
    /\ sent = <<CapturedMsg("Hello, world!")>>

\* C19: a detector sends at most one message; once it is Stable or TimedOut
\* it has sent exactly one, both handles are released, and no tick of the
\* observer or of the interval changes its state or sends anything.
C19_AtMostOneMessage ==
    /\ [](Len(sent) <= 1)
    /\ [](Terminal => (Len(sent) = 1 /\ ~det.observer /\ ~det.intervalId))
    /\ [][Terminal => UNCHANGED <<det, sent>>]_vars

\* a timed-out detector that the tick bound would still let tick
C19_Witness ==
    /\ SentinelSent
    /\ ~det.isComplete
    /\ det.checkCount <= TickCap
    /\ ~det.observer /\ ~det.intervalId

\* C20: the detector is complete only after the 1-second poll has fired at
\* least requiredStableChecks times.
C20_StableNeedsPolls == det.isComplete => hist.polls >= requiredStableChecks

\* C21: the detector is TimedOut only after firings of the 1-second poll:
\* ticks of the observer do not bring the ceiling forward.  hist.polls counts
\* the firings up to requiredStableChecks, so at the ceiling of maxChecks
\* firings the count stands at that cap.
C21_TimeoutNeedsPolls == SentinelSent => hist.polls >= requiredStableChecks

(***************************************************************************)
(* Further claims about the Broker and the injected routine (SpecInj)      *)
(***************************************************************************)
\* C22: when Tier 1 throws (an editor view was found and building or
\* dispatching the transaction raises), the routine goes on to Tier 2: the
\* run of the routine leaves no failure marker and has started the DOM
\* manipulation with its 300 ms check.
C22_Tier1ThrowFallsThrough ==
    [][\A a \in Attempts :
         (RunInjection(a, TRUE, TRUE) /\ editor.textarea /\ editor.view) =>
             /\ inj'[a].tier = "dom"
             /\ inj'[a].t300
             /\ "error" \notin DOMAIN marker'.val]_vars

\* C23: when the Broker reads the marker for attempt a, the routine of that
\* attempt has no timer left to run: neither the 300 ms check nor the 200 ms
\* one that follows it is still pending, so its result is already written.
C23_ReadAfterFinalWrite ==
    [][\A a \in Attempts, outcome \in {"ok", "empty", "fail"} :
         BrokerRead(a, outcome) => (~inj[a].t300 /\ ~inj[a].t200)]_vars

\* the value of the marker the Broker's read of attempt a found in the page
MarkerSeen(a) ==
    IF "result" \in DOMAIN inj[a].result THEN inj[a].result.result ELSE inj[a].result

\* C24: the Broker's answer as a function of marker and probe: a marker
\* marking success is answered as it is and deleted; otherwise a probe that
\* finds text in the input gives success with method dom_manipulation; a
\* failure marker with an empty input gives that failure; no marker with an
\* empty input gives the "No result found" failure.
C24_ResultSelection ==
    [][\A a \in Attempts :
         /\ (BrokerRead(a, "ok") /\ Has(marker.val, "success")) =>
                /\ inj'[a].responses = <<marker.val>>
                /\ marker' = NoMarker
         /\ (BrokerProbe(a, TRUE) /\ inj[a].read = "ok") =>
                inj'[a].responses =
                    <<IF editor.textarea /\ editor.text THEN DomResult
                      ELSE IF Truthy(MarkerSeen(a)) THEN MarkerSeen(a)
                      ELSE NoResultFound>>]_vars

(***************************************************************************)
(* Claims about the content-script orchestrator (checked under SpecOrch)   *)
(***************************************************************************)
IsPrefix(s, t) == Len(s) <= Len(t) /\ \A i \in DOMAIN s : s[i] = t[i]

\* the order of the orchestrator's steps for one prompt message
StepOrder(submit) ==
    <<"inject-request", "inject-result", "verify", submit, "detector-start">>

Submitted(k) == \E i \in DOMAIN orch[k].steps : orch[k].steps[i] \in {"click", "enter"}

\* C25: for each prompt message the orchestrator's steps come in the order
\* injection request, injection result, verification, submission (click or
\* Enter), detector start; it submits only after the verification read text
\* in the input, starts one detector per submission and none without one,
\* and with no input element or with an empty input at the verification it
\* stops there: no submission, no detector.
C25_OrchestratorOrder ==
    /\ [](\A k \in Prompts :
            /\ \E submit \in {"click", "enter"} : IsPrefix(orch[k].steps, StepOrder(submit))
            /\ Submitted(k) => orch[k].verified = "text"
            /\ orch[k].detectors = (IF Submitted(k) THEN 1 ELSE 0)
            /\ orch[k].pc = "noTextarea" => orch[k].steps = <<>>
            /\ orch[k].pc = "failed" =>
                   /\ orch[k].verified = "empty"
                   /\ orch[k].steps = SubSeq(StepOrder("click"), 1, 3))
    /\ [][\A k \in Prompts :
            /\ (HandlePrompt(k) /\ ~editor.textarea) => orch'[k].pc = "noTextarea"
            /\ (VerifyContent(k) /\ ~editor.text) => orch'[k].pc = "failed"
            /\ orch[k].pc \in {"noTextarea", "failed", "detecting"} =>
                   orch'[k] = orch[k]]_vars

\* one prompt went through all five steps with the Enter fallback, after the
\* Broker had answered with a failure, while another stopped at an empty input
C25_Witness ==
    \E k \in Prompts, j \in Prompts :
        /\ orch[k].steps = StepOrder("enter")
        /\ ~Has(orch[k].result, "success")
        /\ orch[k].detectors = 1
        /\ orch[j].pc = "failed"
        /\ Has(orch[j].result, "success")

(***************************************************************************)
(* Further claims about the detector (checked under SpecDet)               *)
(***************************************************************************)
\* C26: within one detector streamingDetected is monotonic: it is true
\* exactly from the first tick that saw a stop control on, and no later tick
\* clears it, also not a tick where the completion conditions fail and the
\* stability counter is reset.
C26_StreamingMonotonic ==
    /\ [](det.streamingDetected <=> hist.everStop)
    /\ [][(det.started /\ det.streamingDetected) => det'.streamingDetected]_vars

\* streaming was seen, the conditions were met for a while, and the latest
\* tick failed them and reset the stability counter
C26_Witness ==
    /\ det.streamingDetected
    /\ hist.everCandidate
    /\ hist.candRun = 0
    /\ det.stableCount = 0
    /\ det.lastResponseLength > 0
    /\ ~Terminal

\* C27: every started detector eventually is Stable or TimedOut and has sent
\* its message, whatever the DOM shows at each tick, as long as the 1-second
\* poll keeps firing.
C27_DetectorTerminates == det.started ~> (Terminal /\ Len(sent) = 1)

\* a detector that saw streaming and met the completion conditions at some
\* ticks, never three times in a row with the same length, and timed out
C27_Witness ==
    /\ SentinelSent
    /\ hist.everCandidate
    /\ det.streamingDetected
    /\ hist.polls > 0

(***************************************************************************)
(* Further claims about the Facade (SpecFacade, Spec)                      *)
(***************************************************************************)
\* the open tabs whose URL contains an entry of the allow-list
MatchingTabs == {t \in tabs : UrlMatches(t)}

\* C28 (as amended): the target is resolved anew at every call: the lookup
\* of each sendPrompt and of each isAvailable reads the tabs open at that
\* moment and, when the scan succeeds, uses the first whose URL matches the
\* allow-list; so after the matching tab was closed the next lookup finds
\* none, and after one was opened the next lookup finds it.  A lookup whose
\* scan fails finds none, whatever is open.
C28_ResolvedAtEveryCall ==
    [][/\ \A r \in Reqs, queryOk \in BOOLEAN :
            TabQueryReturn(r, queryOk) =>
                IF queryOk /\ MatchingTabs # {}
                THEN /\ req'[r].tab \in MatchingTabs
                     /\ \A t \in MatchingTabs : req'[r].tab <= t
                     /\ req'[r].pc = "sending"
                ELSE /\ req'[r].tab = 0
                     /\ req'[r].pc = "returned"
       /\ \A queryOk \in BOOLEAN :
            IsAvailable(queryOk) =>
                available' = IF queryOk /\ MatchingTabs # {} THEN "true" ELSE "false"]_vars

\* a sendPrompt found a tab that is closed by now, and isAvailable finds none
C28_Witness ==
    \E r \in Reqs :
        /\ req[r].tab # 0
        /\ req[r].tab \notin tabs
        /\ MatchingTabs = {}
        /\ available = "false"

\* C28 as stated: every lookup finds the matching tab open at that moment.
C28_FindsWhatIsOpen ==
    [][/\ \A r \in Reqs, queryOk \in BOOLEAN :
            TabQueryReturn(r, queryOk) =>
                IF MatchingTabs # {}
                THEN req'[r].tab \in MatchingTabs
                ELSE req'[r].tab = 0
       /\ \A queryOk \in BOOLEAN :
            IsAvailable(queryOk) =>
                available' = IF MatchingTabs # {} THEN "true" ELSE "false"]_vars

\* the promise of request r is settled or, its lookup having found no tab,
\* its executor has returned
Finished(r) == Settled(r) \/ req[r].pc \in {"thrown", "returned"}

\* C29: the listener set holds only listeners of unsettled requests: a
\* request in the set is not settled and its timer is running; a settled
\* request is out of the set, with its timer fired when it was rejected with
\* Timeout and cancelled otherwise (captured text, CommunicationError,
\* TargetNotFound); once every request has settled the set is empty.
C29_ListenersOfUnsettled ==
    /\ \A r \in responseListeners :
           ~Settled(r) /\ ~req[r].resolved /\ req[r].timer = "armed"
    /\ \A r \in Reqs :
           /\ (Settled(r) /\ req[r].pc # "thrown") =>
                  /\ r \notin responseListeners
                  /\ req[r].timer = IF req[r].settles[1] = Rejected(Timeout)
                                    THEN "fired" ELSE "cleared"
           /\ req[r].pc = "returned" =>
                  (r \notin responseListeners /\ req[r].timer # "armed")
    /\ (\A r \in Reqs : Finished(r)) => responseListeners = {}

\* one request was rejected by its timer, another resolved by a captured
\* response, and the set is empty
C29_Witness ==
    /\ responseListeners = {}
    /\ \E a \in Reqs, b \in Reqs :
           /\ req[a].settles = <<Rejected(Timeout)>>
           /\ req[a].timer = "fired"
           /\ Len(req[b].settles) = 1
           /\ req[b].settles[1].kind = "resolve"
           /\ req[b].timer = "cleared"

(***************************************************************************)
(* Sequential use of the Facade (SpecSeq): as in                           *)
(*   for (const prompt of prompts) { try { await api.sendPrompt(prompt) }  *)
(*                                   catch (error) { ... } }               *)
(* a call of sendPrompt is made only after the promises of the earlier     *)
(* calls have settled                                                      *)
(***************************************************************************)
SeqNext ==
    \/ Initialize
    \/ \E r \in Reqs, p \in PromptValues :
           (\A q \in 1..(r - 1) : Settled(q)) /\ SendPrompt(r, p)
    \/ AfterSendNext

SpecSeq == Init /\ [][SeqNext]_vars

\* C30: in sequential use, the captured response of the detector started for
\* an earlier request never resolves a later request.
C30_NoStaleDelivery ==
    \A a \in Reqs, b \in Reqs : a < b => ~ResolvedBy(b, a)

=============================================================================
